---- MODULE Spec2Model ----
(***************************************************************************)
(* Model of arrow::matlab::c::proxy::Schema (schema.cc): a proxy that owns *)
(* one ArrowSchema struct, exports its address as a uint64 and releases it *)
(* in its destructor.                                                      *)
(*                                                                         *)
(* One proxy instance is modelled.  The environment is the host runtime    *)
(* (make, getAddress, invoke, destruction) and external native code that   *)
(* holds the exported address and writes fields of the struct through it.  *)
(***************************************************************************)
EXTENDS Integers, Sequences, FiniteSets, TLC

(* ---------------------------------------------------------------- bounds *)

\* How many times the destructor is called on the instance.
MaxDestroy == 2

\* How many external writes may store a non-null callback in release.
MaxStores == 2

\* The largest number of output slots a call context carries.
MaxOutputs == 2

\* How many external writes may store a non-null value in a field other than
\* release.
MaxFieldWrites == 2

\* How many shared owners of the instance the host runtime may hold at once.
MaxRefs == 2

(* ------------------------------------------------------------ vocabulary *)

\* NULL pointer / zero value of every field of struct ArrowSchema.
NULL == 0

\* Addresses the allocator may hand out for the instance (never NULL).
HeapAddrs == {4096, 8192}

\* The release callbacks external code may store (foreign function pointers).
Callbacks == {1, 2}

\* The fields of struct ArrowSchema (arrow/c/abi.h).
Fields == {"format", "name", "metadata", "flags", "n_children", "children",
           "dictionary", "release", "private_data"}

\* Values external native code may write into a field.
FieldValues(f) == IF f = "release" THEN {NULL} \cup Callbacks ELSE {NULL, 1}

\* Constructor-argument sequences the host runtime may supply.
CtorArgs == {<<>>, <<1, 2>>}

\* Operation names the host runtime may ask for.
OpNames == {"getAddress", "getSchema"}

\* Input sequences of a call context.
CtxInputs == {<<>>, <<7>>}

VARIABLES
  phase,        \* "unborn", "live", "destroyed" ("failed": make returned an error)
  arrowSchema,  \* the member Schema::arrowSchema (the bytes at its storage)
  storage,      \* address of the member arrowSchema, NULL before allocation
  methods,      \* the dispatch table: operation name -> bound method
  ctx,          \* the call context of the host call that just returned
  handle,       \* the integer address external code holds, NULL if none
  returned,     \* every address getAddress has put in an output slot
  invoked,      \* log of release-callback invocations: <<[cb, arg]>>
  destroyCalls, \* how many times the destructor has been called
  relStores,    \* how many external writes stored a non-null release
  fieldWrites,  \* how many external writes stored a non-null value elsewhere
  owned,        \* a stored callback has not been invoked or moved out yet
  consec,       \* length of the current run of destructor calls with no write between
  runStart,     \* release field and Len(invoked) when the current run began,
                \* and whether it began with the teardown of the live instance
  postFirst,    \* arrowSchema right after the first destroy of the current run
  lateWrite,    \* an external write went through the handle after destruction
  faulted,      \* a NULL function pointer was called
  unknownSeen,  \* an invoke of an unregistered name has been reported
  lastOp,       \* the operation that produced the current state ("destroy": a
                \* destructor call that ran ~Schema's body, "destroyBase": one
                \* that was dispatched to the base destructor)
  refs,         \* use count of the shared_ptr make returned (owned teardown)
  dtor          \* progress of a destructor run taken one statement at a time

proxyVars ==
  <<phase, arrowSchema, storage, methods, ctx, handle, returned, invoked,
    destroyCalls, relStores, fieldWrites, owned, consec, runStart,
    postFirst, lateWrite, faulted, unknownSeen, lastOp>>

vars == <<proxyVars, refs, dtor>>

(* --------------------------------------------------------------- helpers *)

\* `arrowSchema{}`: value-initialisation sets every field to zero/null.
ZeroSchema == [f \in Fields |-> NULL]

\* What the bytes of a fresh allocation may hold before the constructor runs.
UninitSchemas == {[f \in Fields |-> NULL], [f \in Fields |-> 1]}

\* A mutant of ValueInit: the member is default-initialised (left as found).
ValueInit_Uninit(mem) == mem

\* Schema::Schema's member initialiser `arrowSchema{}`.
ValueInit(mem) == ZeroSchema

\* The dispatch table before any registration.
EmptyTable == [n \in {} |-> "none"]

\* libmexclass registerMethod: bind `name` to method `m` in `table`.
RegisterMethod(table, name, m) ==
  [n \in (DOMAIN table) \cup {name} |-> IF n = name THEN m ELSE table[n]]

\* A mutant of ConstructorTable: a second name is bound to the same method.
ConstructorTable_Extra ==
  RegisterMethod(RegisterMethod(EmptyTable, "getAddress", "getAddress"),
                 "getSchema", "getAddress")

\* A mutant of ConstructorTable: the constructor registers nothing.
ConstructorTable_Empty == EmptyTable

\* Schema::Schema's body: REGISTER_METHOD(Schema, getAddress).
ConstructorTable == RegisterMethod(EmptyTable, "getAddress", "getAddress")

\* A fresh call context with n output slots (slot i is outputs[i], 0 = empty).
\* error is the context's error channel; abrupt records a call that ended
\* outside it (an access past the end of outputs).
NewContext(via, name, inputs, n) ==
  [via |-> via, name |-> name, inputs |-> inputs,
   outputs |-> [i \in 0..(n - 1) |-> 0], error |-> "none", abrupt |-> FALSE]

\* The context variable when no host call has been made yet.
NoContext == NewContext("none", "none", <<>>, 0)

\* A mutant of AddressOfArrowSchema: the address of a by-value copy of the member.
AddressOfArrowSchema_Copy(st) == st + 64

\* reinterpret_cast<uint64_t>(&arrowSchema): the member's address as an integer.
AddressOfArrowSchema(st) == st

\* A mutant of getAddress: the result is written to output slot 1.
getAddress_Slot1(context, st) ==
  IF 1 \in DOMAIN context.outputs
    THEN [context EXCEPT !.outputs = [@ EXCEPT ![1] = AddressOfArrowSchema(st)]]
    ELSE [context EXCEPT !.abrupt = TRUE]

\* A mutant of getAddress: the address of a stack copy of the member, which
\* differs with the depth of the call.
getAddress_StackCopy(context, st) ==
  IF 0 \in DOMAIN context.outputs
    THEN [context EXCEPT !.outputs =
            [@ EXCEPT ![0] = IF context.via = "invoke" THEN 512 ELSE 640]]
    ELSE [context EXCEPT !.abrupt = TRUE]

\* A mutant of getAddress: the number of output slots is checked first and a
\* context without slots is reported through the error channel.
getAddress_Checked(context, st) ==
  IF 0 \in DOMAIN context.outputs
    THEN [context EXCEPT !.outputs = [@ EXCEPT ![0] = AddressOfArrowSchema(st)]]
    ELSE [context EXCEPT !.error = "TooFewOutputs"]

\* Schema::getAddress: context.outputs[0] = createScalar(address).  The slot
\* count is not checked: with no slot 0 the indexing runs past the end of
\* outputs and the call ends abruptly, the error channel untouched.
getAddress(context, st) ==
  IF 0 \in DOMAIN context.outputs
    THEN [context EXCEPT !.outputs = [@ EXCEPT ![0] = AddressOfArrowSchema(st)]]
    ELSE [context EXCEPT !.abrupt = TRUE]

\* A mutant of getAddressMember: the method clears the release field.
getAddressMember_ClearsRelease(s) == [s EXCEPT !.release = NULL]

\* The member arrowSchema when Schema::getAddress returns: the method takes
\* the member's address and assigns to none of its fields.
getAddressMember(s) == s

\* The generic invocation path: look the name up, report an unknown operation
\* through the context, otherwise call the bound method.
invoke(table, name, context, st) ==
  IF name \notin DOMAIN table
    THEN [context EXCEPT !.error = "UnknownOperation"]
    ELSE IF table[name] = "getAddress" THEN getAddress(context, st) ELSE context

\* What a release callback does to the struct it is handed.  Callback 1 follows
\* the C data interface (frees its private data and marks the struct released);
\* callback 2 is a recording test callback that leaves the struct as it is.
ReleaseCallback(cb, s) ==
  IF cb = 1 THEN [s EXCEPT !.release = NULL, !.private_data = NULL] ELSE s

\* A mutant of CallRelease: the call is left out.
CallRelease_Skip(fn, r, st) == r

\* The effect of calling the function pointer `fn` with `&arrowSchema`.
CallRelease(fn, r, st) ==
  IF fn = NULL
    THEN [r EXCEPT !.fault = TRUE]
    ELSE [r EXCEPT !.schema = ReleaseCallback(fn, r.schema),
                   !.log = Append(r.log, [cb |-> fn, arg |-> st])]

\* A mutant of Destructor: the release field is not checked against NULL.
Destructor_NoCheck(s, log, st) ==
  [CallRelease(s.release, [schema |-> s, log |-> log, fault |-> FALSE], st)
     EXCEPT !.schema.release = NULL]

\* A mutant of Destructor: the release field is not cleared after the call.
Destructor_NoClear(s, log, st) ==
  IF s.release # NULL
    THEN CallRelease(s.release, [schema |-> s, log |-> log, fault |-> FALSE], st)
    ELSE [schema |-> s, log |-> log, fault |-> FALSE]

\* A mutant of Destructor: the callback is handed a NULL pointer.
Destructor_NullArg(s, log, st) ==
  IF s.release # NULL
    THEN [CallRelease(s.release, [schema |-> s, log |-> log, fault |-> FALSE], NULL)
            EXCEPT !.schema.release = NULL]
    ELSE [schema |-> s, log |-> log, fault |-> FALSE]

\* A mutant of Destructor: the whole struct is zeroed on teardown.
Destructor_Wipe(s, log, st) ==
  IF s.release # NULL
    THEN [CallRelease(s.release, [schema |-> s, log |-> log, fault |-> FALSE], st)
            EXCEPT !.schema = ZeroSchema]
    ELSE [schema |-> ZeroSchema, log |-> log, fault |-> FALSE]

\* A mutant of Destructor: the destructor frees the children itself.
Destructor_FreeChildren(s, log, st) ==
  IF s.release # NULL
    THEN [CallRelease(s.release, [schema |-> s, log |-> log, fault |-> FALSE], st)
            EXCEPT !.schema.release = NULL, !.schema.children = NULL,
                   !.schema.n_children = NULL]
    ELSE [schema |-> s, log |-> log, fault |-> FALSE]

\* A mutant of Destructor: once a callback has run, teardown is latched off.
Destructor_Latch(s, log, st) ==
  IF s.release # NULL /\ log = <<>>
    THEN [CallRelease(s.release, [schema |-> s, log |-> log, fault |-> FALSE], st)
            EXCEPT !.schema.release = NULL]
    ELSE [schema |-> s, log |-> log, fault |-> FALSE]

\* Schema::~Schema: if release is set, call it with &arrowSchema, then clear it.
Destructor(s, log, st) ==
  IF s.release # NULL
    THEN [CallRelease(s.release, [schema |-> s, log |-> log, fault |-> FALSE], st)
            EXCEPT !.schema.release = NULL]
    ELSE [schema |-> s, log |-> log, fault |-> FALSE]

\* What a destructor call does with lines 30-33.  On the live instance it runs
\* them.  On an instance already destroyed the call is undefined behaviour,
\* and what happens depends on how the call is compiled: a virtual call finds
\* the vptr that the first run reset to the base and runs none of ~Schema
\* ("base"); a direct call (the destructor named as Schema::~Schema, a base
\* whose destructor is not virtual, or a build that drops the vptr reset as a
\* dead store) runs the body again ("body").
DestructorOutcomes(ph) == IF ph = "live" THEN {"body"} ELSE {"body", "base"}

\* One destructor call: ~Schema's body, or nothing of it.
DestructorCall(how, s, log, st) ==
  IF how = "body"
    THEN Destructor(s, log, st)
    ELSE [schema |-> s, log |-> log, fault |-> FALSE]

\* The closing brace of ~Schema: the base destructor runs and destroys the
\* dispatch table, which holds no name afterwards.
BaseDestructor(table) == EmptyTable

\* The value of the run-tracking variables outside a run of destroy calls.
NoRun == [rel |-> NULL, n |-> 0, live |-> FALSE]

\* No destructor run is in progress.  pc is the position in ~Schema, fn the
\* pointer loaded by its test, fnStore/called/cur the external stores that put
\* there the pointer loaded, the callback invoked and the value now in release
\* (0 for none); lost: a stored callback was erased without being invoked;
\* raced: an external write to release landed inside the run.
NoDtor ==
  [pc |-> "idle", fn |-> NULL, fnStore |-> 0, called |-> 0, cur |-> 0,
   lost |-> FALSE, raced |-> FALSE]

\* A mutant of LastOwner: every owner that lets go destroys the object.
LastOwner_Always(count) == TRUE

\* std::shared_ptr: the object is destroyed when its last owner lets go.
LastOwner(count) == count = 1

\* `arrowSchema.release(&arrowSchema)` after the test of line 30, with a writer
\* on another thread: the access is unsynchronised, so the build may call
\* through the pointer the test loaded or through a fresh load of the field.
CallTargets(loaded, current) ==
  {[fn |-> loaded, src |-> "loaded"], [fn |-> current, src |-> "reread"]}

\* `arrowSchema.release = NULL`.
ClearRelease(s) == [s EXCEPT !.release = NULL]

(* ----------------------------------------------------------------- state *)

Init ==
  /\ phase = "unborn"
  /\ arrowSchema \in UninitSchemas
  /\ storage = NULL
  /\ methods = EmptyTable
  /\ ctx = NoContext
  /\ handle = NULL
  /\ returned = {}
  /\ invoked = <<>>
  /\ destroyCalls = 0
  /\ relStores = 0
  /\ fieldWrites = 0
  /\ owned = FALSE
  /\ consec = 0
  /\ runStart = NoRun
  /\ postFirst = ZeroSchema
  /\ lateWrite = FALSE
  /\ faulted = FALSE
  /\ unknownSeen = FALSE
  /\ lastOp = "none"
  /\ refs = 0
  /\ dtor = NoDtor

\* A mutant of make: a non-empty argument list is rejected.
make_RejectArgs(constructor_arguments, mem) ==
  IF constructor_arguments = <<>>
    THEN [error |-> "none", schema |-> ValueInit(mem), table |-> ConstructorTable]
    ELSE [error |-> "InvalidArguments", schema |-> mem, table |-> EmptyTable]

\* Schema::make: return std::make_shared<Schema>(); the constructor runs on the
\* fresh allocation and the constructor arguments are not read.
make(constructor_arguments, mem) ==
  [error |-> "none", schema |-> ValueInit(mem), table |-> ConstructorTable]

\* The host runtime requests construction; the allocator picks the address.
Make(args) ==
  /\ phase = "unborn"
  /\ LET r == make(args, arrowSchema) IN
       /\ arrowSchema' = r.schema
       /\ methods' = r.table
       /\ phase' = IF r.error = "none" THEN "live" ELSE "failed"
       /\ \E a \in HeapAddrs : storage' = IF r.error = "none" THEN a ELSE NULL
       /\ ctx' = [NewContext("make", "make", args, 0) EXCEPT !.error = r.error]
  /\ lastOp' = "make"
  /\ UNCHANGED <<handle, returned, invoked, destroyCalls, relStores,
                 fieldWrites, owned, consec, runStart, postFirst, lateWrite,
                 faulted, unknownSeen>>

\* The host receives the context back; a written slot 0 is the exported handle.
Exported(context, old) ==
  IF context.error = "none" /\ 0 \in DOMAIN context.outputs /\ context.outputs[0] # 0
    THEN context.outputs[0] ELSE old

\* Every non-empty output of a successful call is a returned address.
Outputs(context) ==
  IF context.error = "none"
    THEN {context.outputs[i] : i \in DOMAIN context.outputs} \ {0}
    ELSE {}

\* The effect of a direct call of Schema::getAddress(context).
GetAddressCall(inputs, n) ==
  /\ ctx' = getAddress(NewContext("direct", "getAddress", inputs, n), storage)
  /\ arrowSchema' = getAddressMember(arrowSchema)
  /\ handle' = Exported(ctx', handle)
  /\ returned' = returned \cup Outputs(ctx')
  /\ lastOp' = "getAddress"
  /\ UNCHANGED <<phase, storage, methods, invoked, destroyCalls,
                 relStores, fieldWrites, owned, consec, runStart, postFirst,
                 lateWrite, faulted, unknownSeen>>

\* A direct call of Schema::getAddress(context) on the live instance.
GetAddress(inputs, n) ==
  /\ phase = "live"
  /\ GetAddressCall(inputs, n)

\* The effect of invoking an operation by name through the dispatch table.
InvokeCall(name, inputs, n) ==
  /\ ctx' = invoke(methods, name, NewContext("invoke", name, inputs, n), storage)
  /\ arrowSchema' = IF name \in DOMAIN methods /\ methods[name] = "getAddress"
                      THEN getAddressMember(arrowSchema) ELSE arrowSchema
  /\ handle' = Exported(ctx', handle)
  /\ returned' = returned \cup Outputs(ctx')
  /\ unknownSeen' = (unknownSeen \/ ctx'.error = "UnknownOperation")
  /\ lastOp' = "invoke"
  /\ UNCHANGED <<phase, storage, methods, invoked, destroyCalls,
                 relStores, fieldWrites, owned, consec, runStart, postFirst,
                 lateWrite, faulted>>

\* The host runtime invokes an operation by name on the live instance.
Invoke(name, inputs, n) ==
  /\ phase = "live"
  /\ InvokeCall(name, inputs, n)

\* External native code writes value v into field f through the address it holds.
ExternalWrite(f, v) ==
  /\ handle # NULL
  /\ (f = "release" /\ v # NULL) => relStores < MaxStores
  /\ (f # "release" /\ v # NULL) => fieldWrites < MaxFieldWrites
  /\ arrowSchema' = IF handle = storage THEN [arrowSchema EXCEPT ![f] = v]
                                        ELSE arrowSchema
  /\ relStores' = IF f = "release" /\ v # NULL THEN relStores + 1 ELSE relStores
  /\ fieldWrites' = IF f # "release" /\ v # NULL THEN fieldWrites + 1
                                                ELSE fieldWrites
  /\ owned' = IF f = "release" /\ handle = storage THEN v # NULL ELSE owned
  /\ consec' = 0
  /\ runStart' = NoRun
  /\ postFirst' = ZeroSchema
  /\ lateWrite' = (lateWrite \/ phase = "destroyed")
  /\ ctx' = NoContext
  /\ lastOp' = "write"
  /\ UNCHANGED <<phase, storage, methods, handle, returned, invoked,
                 destroyCalls, faulted, unknownSeen>>

\* The destructor is called: teardown of the live instance by its owner, or a
\* repeated call on the instance already destroyed.
Destroy ==
  /\ phase \in {"live", "destroyed"}
  /\ destroyCalls < MaxDestroy
  /\ \E how \in DestructorOutcomes(phase) :
       LET r == DestructorCall(how, arrowSchema, invoked, storage) IN
         /\ arrowSchema' = r.schema
         /\ invoked' = r.log
         /\ faulted' = (faulted \/ r.fault)
         /\ owned' = IF Len(r.log) > Len(invoked) THEN FALSE ELSE owned
         /\ runStart' = IF consec = 0
                          THEN [rel |-> arrowSchema.release, n |-> Len(invoked),
                                live |-> phase = "live"]
                          ELSE runStart
         /\ postFirst' = IF consec = 0 THEN r.schema ELSE postFirst
         /\ lastOp' = IF how = "body" THEN "destroy" ELSE "destroyBase"
  /\ methods' = BaseDestructor(methods)
  /\ phase' = "destroyed"
  /\ destroyCalls' = destroyCalls + 1
  /\ consec' = consec + 1
  /\ ctx' = NoContext
  /\ UNCHANGED <<storage, handle, returned, relStores, fieldWrites,
                 lateWrite, unknownSeen>>

Next ==
  \/ (\E args \in CtorArgs : Make(args)) /\ UNCHANGED <<refs, dtor>>
  \/ (\E inputs \in CtxInputs, n \in 0..MaxOutputs : GetAddress(inputs, n))
       /\ UNCHANGED <<refs, dtor>>
  \/ (\E name \in OpNames, inputs \in CtxInputs, n \in 0..MaxOutputs :
        Invoke(name, inputs, n)) /\ UNCHANGED <<refs, dtor>>
  \/ (\E f \in Fields : \E v \in FieldValues(f) : ExternalWrite(f, v))
       /\ UNCHANGED <<refs, dtor>>
  \/ Destroy /\ UNCHANGED <<refs, dtor>>

Spec == Init /\ [][Next]_vars

(* ------------------------------------------- teardown by shared ownership *)

\* make returns the first owner of the new instance.
OwnedMake(args) == Make(args) /\ refs' = 1 /\ UNCHANGED dtor

\* The host runtime copies the shared_ptr it holds.
ShareRef ==
  /\ refs >= 1
  /\ refs < MaxRefs
  /\ refs' = refs + 1
  /\ UNCHANGED <<proxyVars, dtor>>

\* The host runtime calls getAddress through an owner it holds.
OwnedGetAddress(inputs, n) ==
  /\ refs >= 1
  /\ GetAddressCall(inputs, n)
  /\ UNCHANGED <<refs, dtor>>

\* The host runtime invokes an operation through an owner it holds.
OwnedInvoke(name, inputs, n) ==
  /\ refs >= 1
  /\ InvokeCall(name, inputs, n)
  /\ UNCHANGED <<refs, dtor>>

\* An owner lets go; the last one to do so runs ~Schema.
DropRef ==
  /\ refs >= 1
  /\ refs' = refs - 1
  /\ IF LastOwner(refs) THEN Destroy ELSE UNCHANGED proxyVars
  /\ UNCHANGED dtor

\* External native code writes through the address it holds.
OwnedWrite(f, v) == ExternalWrite(f, v) /\ UNCHANGED <<refs, dtor>>

NextOwned ==
  \/ \E args \in CtorArgs : OwnedMake(args)
  \/ ShareRef
  \/ \E inputs \in CtxInputs, n \in 0..MaxOutputs : OwnedGetAddress(inputs, n)
  \/ \E name \in OpNames, inputs \in CtxInputs, n \in 0..MaxOutputs :
       OwnedInvoke(name, inputs, n)
  \/ DropRef
  \/ \E f \in Fields : \E v \in FieldValues(f) : OwnedWrite(f, v)

SpecOwned == Init /\ [][NextOwned]_vars

(* ----------------------------- the destructor beside a concurrent writer *)

\* Construction, with no destructor run in progress.
ConcMake(args) == Make(args) /\ UNCHANGED <<refs, dtor>>

\* getAddress on the live instance; it exports the address the writer uses.
ConcGetAddress(inputs, n) ==
  /\ dtor.pc = "idle"
  /\ GetAddress(inputs, n)
  /\ UNCHANGED <<refs, dtor>>

\* An external write on another thread; it may land before, inside or after
\* the destructor run.  A store of a callback is numbered by relStores.
ConcWrite(f, v) ==
  /\ ExternalWrite(f, v)
  /\ dtor' = [dtor EXCEPT
       !.cur = IF f # "release" \/ handle # storage THEN @
               ELSE IF v # NULL THEN relStores + 1 ELSE 0,
       !.raced = @ \/ (f = "release" /\ dtor.pc \in {"checked", "called"})]
  /\ UNCHANGED refs

\* ~Schema, line 30: `if (arrowSchema.release != NULL)`.  A NULL field ends
\* the run at once, through the base destructor.
DtorCheck ==
  /\ phase = "live"
  /\ dtor.pc = "idle"
  /\ phase' = "destroyed"
  /\ lastOp' = "destroy"
  /\ ctx' = NoContext
  /\ IF arrowSchema.release # NULL
       THEN /\ dtor' = [dtor EXCEPT !.pc = "checked", !.fn = arrowSchema.release,
                                    !.fnStore = dtor.cur]
            /\ UNCHANGED destroyCalls
       ELSE /\ dtor' = [dtor EXCEPT !.pc = "done"]
            /\ destroyCalls' = destroyCalls + 1
  /\ methods' = IF arrowSchema.release # NULL THEN methods
                                              ELSE BaseDestructor(methods)
  /\ UNCHANGED <<arrowSchema, storage, handle, returned, invoked,
                 relStores, fieldWrites, owned, consec, runStart, postFirst,
                 lateWrite, faulted, unknownSeen, refs>>

\* ~Schema, line 31: `arrowSchema.release(&arrowSchema)`.
DtorCall ==
  /\ dtor.pc = "checked"
  /\ \E t \in CallTargets(dtor.fn, arrowSchema.release) :
       LET r == CallRelease(t.fn, [schema |-> arrowSchema, log |-> invoked,
                                   fault |-> FALSE], storage)
           ran == Len(r.log) > Len(invoked)
           store == IF t.fn = arrowSchema.release THEN dtor.cur ELSE dtor.fnStore
           erased == dtor.cur # 0 /\ r.schema.release = NULL
       IN /\ arrowSchema' = r.schema
          /\ invoked' = r.log
          /\ faulted' = (faulted \/ r.fault)
          /\ owned' = IF ran THEN FALSE ELSE owned
          /\ dtor' = [dtor EXCEPT
               !.pc = "called",
               !.called = IF ran THEN store ELSE 0,
               !.cur = IF erased THEN 0 ELSE @,
               !.lost = @ \/ (erased /\ ~(ran /\ store = dtor.cur))]
  /\ UNCHANGED <<phase, storage, methods, ctx, handle, returned, destroyCalls,
                 relStores, fieldWrites, consec, runStart, postFirst, lateWrite,
                 unknownSeen, lastOp, refs>>

\* ~Schema, line 32: `arrowSchema.release = NULL`, and the run returns through
\* the base destructor.
DtorClear ==
  /\ dtor.pc = "called"
  /\ arrowSchema' = ClearRelease(arrowSchema)
  /\ methods' = BaseDestructor(methods)
  /\ owned' = FALSE
  /\ destroyCalls' = destroyCalls + 1
  /\ dtor' = [dtor EXCEPT
       !.pc = "done",
       !.cur = 0,
       !.lost = @ \/ (dtor.cur # 0 /\ dtor.cur # dtor.called)]
  /\ UNCHANGED <<phase, storage, ctx, handle, returned, invoked,
                 relStores, fieldWrites, consec, runStart, postFirst, lateWrite,
                 faulted, unknownSeen, lastOp, refs>>

NextConc ==
  \/ \E args \in CtorArgs : ConcMake(args)
  \/ \E inputs \in CtxInputs, n \in 0..MaxOutputs : ConcGetAddress(inputs, n)
  \/ \E f \in Fields : \E v \in FieldValues(f) : ConcWrite(f, v)
  \/ DtorCheck
  \/ DtorCall
  \/ DtorClear

SpecConc == Init /\ [][NextConc]_vars

TypeOK ==
  /\ phase \in {"unborn", "live", "destroyed", "failed"}
  /\ arrowSchema \in [Fields -> {NULL, 1, 2}]
  /\ storage \in {NULL} \cup HeapAddrs
  /\ destroyCalls \in 0..MaxDestroy
  /\ relStores \in 0..MaxStores
  /\ consec \in 0..MaxDestroy
  /\ faulted \in BOOLEAN
  /\ refs \in 0..MaxRefs
  /\ dtor.pc \in {"idle", "checked", "called", "done"}

(* ---------------------------------------------------------------- claims *)

\* A step in which the destructor is called, whatever the call runs.
DestructorCallStep == destroyCalls' = destroyCalls + 1

\* A step in which ~Schema runs: a destructor call that executes lines 30-33.
DestroyStep == DestructorCallStep /\ lastOp' = "destroy"

\* The instance has been constructed.
Constructed == phase \in {"live", "destroyed"}

\* C1 (as stated): over the lifetime of the instance the release callback is
\* invoked at most once, whatever the sequence of getAddress calls, external
\* writes and destroy calls (a repeated destroy call included).
C1_AtMostOnceEver == Len(invoked) <= 1

\* C1 (amended): the release callback is invoked at most once per destroy call
\* and at most once per external write that stored a non-null callback in
\* release, so at most once for a resource that was populated once.
C1_AtMostOncePerStore ==
  /\ Len(invoked) <= destroyCalls
  /\ Len(invoked) <= relStores

\* C1 witness: a callback was stored, released, stored again and released again.
C1_Witness == Len(invoked) = 2 /\ relStores = 2 /\ destroyCalls = 2

C3_DestroyReleases ==
  [][(DestroyStep /\ arrowSchema.release # NULL) =>
       /\ invoked' = Append(invoked, [cb |-> arrowSchema.release, arg |-> storage])
       /\ arrowSchema'.release = NULL]_vars

\* C3 witness: destroy ran on a resource holding callback 2, which does not
\* clear release itself; it was invoked with the resource's address.
C3_Witness ==
  /\ consec = 1 /\ runStart.rel = 2
  /\ Len(invoked) = runStart.n + 1
  /\ invoked[Len(invoked)] = [cb |-> 2, arg |-> storage]
  /\ arrowSchema.release = NULL

\* C4: when release is null as the destructor is called, the call invokes no
\* callback, changes no field of the resource and does not fault.
C4_DestroyNullNoOp ==
  [][(DestructorCallStep /\ arrowSchema.release = NULL) =>
       /\ arrowSchema' = arrowSchema
       /\ invoked' = invoked
       /\ faulted' = FALSE]_vars

\* C4 witness: destroy ran on a resource whose release was never set while
\* other fields had been written.
C4_Witness ==
  /\ destroyCalls >= 1 /\ relStores = 0 /\ invoked = <<>>
  /\ arrowSchema # ZeroSchema /\ arrowSchema.release = NULL

\* C5: every getAddress call on the live instance returns the same value, the
\* address of the resource storage, whatever external writes happen between
\* the calls; the storage is never relocated.
C5_AddressStable ==
  /\ Cardinality(returned) <= 1
  /\ returned # {} => returned = {storage}

\* C5 witness: getAddress has just returned again after external writes that
\* followed an earlier export.
C5_Witness ==
  /\ ctx.name = "getAddress" /\ ctx.error = "none"
  /\ returned # {} /\ relStores > 0 /\ fieldWrites > 0

\* C6: right after construction, before any external write, every field of
\* the resource is zero/null.
C6_ZeroInit ==
  (phase = "live" /\ relStores = 0 /\ fieldWrites = 0) =>
    \A f \in Fields : arrowSchema[f] = NULL

\* C6 witness: a freshly constructed instance whose address was not exported.
C6_Witness == phase = "live" /\ handle = NULL /\ lastOp = "make"

\* The value a direct getAddress call on the instance puts in slot 0.
DirectAddress ==
  getAddress(NewContext("direct", "getAddress", <<>>, 1), storage).outputs[0]

\* C7: invoking "getAddress" through the dispatch table puts in output slot 0
\* of the context (when it has one) the value a direct getAddress call
\* returns, a non-zero unsigned integer.
C7_DispatchGetAddress ==
  (ctx.via = "invoke" /\ ctx.name = "getAddress" /\ 0 \in DOMAIN ctx.outputs) =>
    /\ ctx.error = "none"
    /\ ctx.outputs[0] = DirectAddress
    /\ ctx.outputs[0] \in Nat \ {0}

\* C7 witness: an invoke of "getAddress" has just returned the storage address.
C7_Witness ==
  /\ ctx.via = "invoke" /\ ctx.name = "getAddress" /\ 0 \in DOMAIN ctx.outputs
  /\ ctx.outputs[0] = storage /\ storage \in HeapAddrs

\* C8: invoking a name absent from the dispatch table reports "unknown
\* operation" through the context, faults nothing and changes neither the
\* resource nor the table; a later invoke of "getAddress" succeeds with the
\* same address.
C8_UnknownOperation ==
  /\ [](unknownSeen => ~faulted /\ phase # "failed")
  /\ []((unknownSeen /\ ctx.via = "invoke" /\ ctx.name = "getAddress"
            /\ 0 \in DOMAIN ctx.outputs) =>
          ctx.error = "none" /\ ctx.outputs[0] = storage /\ returned = {storage})
  /\ [][(ctx'.via = "invoke" /\ ctx'.name \notin DOMAIN methods /\ ctx' # ctx) =>
          /\ ctx'.error = "UnknownOperation"
          /\ \A i \in DOMAIN ctx'.outputs : ctx'.outputs[i] = 0
          /\ arrowSchema' = arrowSchema
          /\ methods' = methods
          /\ storage' = storage
          /\ phase' = phase
          /\ faulted' = faulted]_vars

\* C8 witness: after a reported unknown operation, "getAddress" was invoked
\* and returned the address exported before it.
C8_Witness ==
  /\ unknownSeen /\ ctx.via = "invoke" /\ ctx.name = "getAddress"
  /\ 0 \in DOMAIN ctx.outputs
  /\ ctx.error = "none" /\ ctx.outputs[0] = storage /\ relStores > 0

\* The three lifecycle states of the resource.
NeverPopulated == relStores = 0 /\ ~owned /\ arrowSchema.release = NULL
PopulatedSet == relStores > 0 /\ owned /\ arrowSchema.release # NULL
ReleasedCleared == relStores > 0 /\ ~owned /\ arrowSchema.release = NULL

\* How many of the given conditions hold.
Count(conds) == Cardinality({i \in DOMAIN conds : conds[i]})

\* C9: a constructed instance is in exactly one of the states never populated,
\* populated with release set, released with release cleared; and there is
\* something to free exactly when release is non-null.
C9_Lifecycle ==
  Constructed =>
    /\ Count(<<NeverPopulated, PopulatedSet, ReleasedCleared>>) = 1
    /\ owned <=> arrowSchema.release # NULL

\* C9 witness: a populated resource has been released by destroy.
C9_Witness == ReleasedCleared /\ Len(invoked) = 1 /\ destroyCalls = 1

\* C10 (as stated): the exported address never outlives the instance: no
\* external access through it takes place after the instance's destruction.
C10_NoAccessAfterDestroy == ~lateWrite

\* C10 (amended): from the moment getAddress returns it until the instance is
\* destroyed, the exported address is the address of the instance's allocated
\* storage; destruction does not revoke the integer external code holds.
C10_ValidWhileLive ==
  /\ (phase = "live" /\ handle # NULL) => (handle = storage /\ storage \in HeapAddrs)
  /\ (phase = "destroyed" /\ returned # {}) => handle \in returned

\* C10 witness: external code wrote through the exported address while the
\* instance was live.
C10_Witness == phase = "live" /\ handle = storage /\ handle # NULL /\ relStores > 0

\* A step in which getAddress ran, called directly or through invoke.
GetAddressStep ==
  /\ lastOp' \in {"getAddress", "invoke"}
  /\ ctx'.name = "getAddress" /\ ctx'.error = "none"

\* C11 (as stated): getAddress, direct or through invoke, changes no field of
\* the resource and not the dispatch table; the fields of a constructed
\* resource change only in external writes through the exported address.
C11_OnlyExternalWrites ==
  [][/\ GetAddressStep => (arrowSchema' = arrowSchema /\ methods' = methods)
     /\ (Constructed /\ arrowSchema' # arrowSchema) => lastOp' = "write"]_vars

\* C11 (amended): getAddress, direct or through invoke, changes no field of
\* the resource and not the dispatch table; the fields of a constructed
\* resource change only in external writes through the exported address and
\* in destroy, which runs the release callback and clears release.
C11_GetAddressPure ==
  [][/\ GetAddressStep => (arrowSchema' = arrowSchema /\ methods' = methods)
     /\ (Constructed /\ arrowSchema' # arrowSchema) =>
          lastOp' \in {"write", "destroy"}]_vars

\* C11 witness: getAddress has just run on a populated resource, which still
\* holds its callback and the fields written.
C11_Witness ==
  /\ lastOp \in {"getAddress", "invoke"} /\ ctx.name = "getAddress"
  /\ ctx.error = "none" /\ arrowSchema.release # NULL /\ fieldWrites > 0

\* C12: after any sequence of invokes, getAddress calls and external writes the
\* dispatch table of the live instance holds exactly the name registered at
\* construction, "getAddress", bound to getAddress.
C12_TableImmutable ==
  phase = "live" =>
    /\ DOMAIN methods = {"getAddress"}
    /\ methods["getAddress"] = "getAddress"

\* C12 witness: the live instance has served an unknown name, external writes
\* and then a successful invoke.
C12_Witness ==
  /\ phase = "live" /\ unknownSeen /\ relStores > 0
  /\ lastOp = "invoke" /\ ctx.error = "none"

\* C13: whatever the constructor arguments, make returns an instance and no
\* construction error, and the instance starts in the same state: all fields
\* zero/null, dispatch table {"getAddress"}, nothing exported.
C13_MakeIgnoresArgs ==
  lastOp = "make" =>
    /\ ctx.error = "none" /\ phase = "live"
    /\ arrowSchema = [f \in Fields |-> NULL]
    /\ DOMAIN methods = {"getAddress"}
    /\ storage \in HeapAddrs /\ handle = NULL /\ invoked = <<>>

\* C13 witness: make has just returned for a non-empty argument sequence.
C13_Witness == lastOp = "make" /\ ctx.inputs # <<>> /\ phase = "live"

\* C15: destroy writes no field but release: after ~Schema has run every other
\* field holds what the release callback left (the old value when no callback
\* ran), a destructor call that does not run ~Schema changes no field, and
\* the callback runs in no other operation.
C15_DestroyWritesOnlyRelease ==
  [][/\ DestroyStep =>
          \A f \in Fields \ {"release"} :
            arrowSchema'[f] =
              IF arrowSchema.release # NULL
                THEN ReleaseCallback(arrowSchema.release, arrowSchema)[f]
                ELSE arrowSchema[f]
     /\ (DestructorCallStep /\ ~DestroyStep) => arrowSchema' = arrowSchema
     /\ invoked' # invoked => DestroyStep]_vars

\* C15 witness: destroy ran callback 2 on a resource with children, and the
\* children pointer and count are as they were.
C15_Witness ==
  /\ lastOp = "destroy" /\ consec = 1 /\ runStart.rel = 2
  /\ arrowSchema.children # NULL /\ arrowSchema.n_children # NULL

\* The destructor has just been called again on an instance already
\* destroyed, after external code stored a callback in release.
RepopulatedDestroy ==
  /\ lastOp \in {"destroy", "destroyBase"}
  /\ destroyCalls >= 2 /\ consec = 1 /\ runStart.rel # NULL

\* The later destructor call invoked the callback it found, once, with the
\* address of the resource, and release is null.
ReleasedStored ==
  /\ Len(invoked) = runStart.n + 1
  /\ invoked[Len(invoked)] = [cb |-> runStart.rel, arg |-> storage]
  /\ arrowSchema.release = NULL

C18_GetAddressContext ==
  (lastOp \in {"getAddress", "invoke"} /\ ctx.name = "getAddress"
     /\ ctx.error # "UnknownOperation") =>
    /\ ctx.error = "none"
    /\ IF 0 \in DOMAIN ctx.outputs
         THEN /\ ctx.outputs[0] = storage
              /\ \A i \in DOMAIN ctx.outputs \ {0} : ctx.outputs[i] = 0
              /\ ~ctx.abrupt
         ELSE ctx.abrupt

\* C18 witness: getAddress was called with inputs and no output slot.
C18_Witness ==
  /\ lastOp = "getAddress" /\ DOMAIN ctx.outputs = {}
  /\ ctx.inputs # <<>> /\ ctx.abrupt /\ ctx.error = "none"

\* C14: with teardown driven by the shared owners make hands out, ~Schema runs
\* exactly once per instance, when the last owner has let go and so after
\* construction and after every host call; no getAddress or invoke runs on an
\* instance whose destruction has begun.
C14_TeardownOnce ==
  /\ destroyCalls <= 1
  /\ destroyCalls = 1 <=> (Constructed /\ refs = 0)
  /\ phase = "destroyed" <=> destroyCalls = 1
  /\ lastOp \in {"getAddress", "invoke"} =>
       (phase = "live" /\ destroyCalls = 0 /\ refs >= 1)

\* C14 witness: after calls through two owners and external writes, both
\* owners let go and the destructor ran, releasing the stored callback.
C14_Witness ==
  /\ destroyCalls = 1 /\ refs = 0 /\ lastOp = "destroy"
  /\ returned # {} /\ unknownSeen /\ Len(invoked) = 1

====
